---- MODULE Spec2Model ----
(***************************************************************************)
(* imageCop: find_similar_images (image_comparator.py) and the ScanWorker  *)
(* thread that runs it (main.py).                                          *)
(*                                                                         *)
(* A path is modelled by its rank in the lexicographic order of the path   *)
(* strings, so min() and sorted() on paths are min and sort on ranks.      *)
(* A perceptual hash is a bit pattern, written as a natural number; the    *)
(* difference of two hashes is the Hamming distance of the patterns.       *)
(***************************************************************************)
EXTENDS Integers, Sequences, FiniteSets, TLC

\* Bounds of the model.
MaxFiles == 3
MaxHash == 2
MaxThreshold == 1
WorkerFiles == 2
HashedFiles == 4
HashedMaxHash == 1
AppFiles == 2
FairFiles == 1
MaxScans == 2

\* ScanWorker.__init__: similarity_threshold=5
DefaultThreshold == 5

HashValues == 0 .. MaxHash
Thresholds == 0 .. MaxThreshold

\* What Image.open + imagehash.phash gives for a file: <<>> when it raises,
\* <<h>> when it yields the hash h.
Decodes == {<<>>} \cup {<<h>> : h \in HashValues}

VARIABLES
    folder,               \* "ok" | "missing" | "unlistable"
    all_files,            \* os.listdir(folder_path), in enumeration order
    supported,            \* supported[f]: the name of f ends in a supported format
    decoded,              \* decoded[f] \in Decodes
    similarity_threshold,
    pc,                   \* position of the worker thread
    image_files,
    processed_count,
    hashes,               \* the dict hashes, in insertion order: <<[path, hash], ...>>
    i,                    \* outer index of the pairwise loop
    comparison_count,
    adj,                  \* the defaultdict adj: DOMAIN adj are its keys
    similar_groups,       \* what find_similar_images returned to run()
    calls,                \* the calls of progress_callback, in order
    is_running,           \* ScanWorker._is_running
    progress,             \* emissions of the signal ScanWorker.progress
    results,              \* emissions of the signal ScanWorker.results
    finished,             \* emissions of the signal ScanWorker.finished
    queue,                \* signals emitted by the worker thread that the GUI
                          \* thread has not handled yet, oldest first
    scan_thread,          \* DuplicateImageFinderApp.scan_thread: "None" | "worker"
    selected_folder,      \* a folder has been selected
    browse_enabled,       \* browse_button.isEnabled()
    scan_button_text,     \* "start" (Iniciar Verificacao) | "stop" (Parar Verificacao)
    progress_visible,     \* progress_bar.isVisible()
    tree_items,           \* results_tree.topLevelItemCount()
    scans,                \* ScanWorkers started so far
    orphans               \* earlier ScanWorkers still inside run() when start_scan
                          \* started a newer one

inputs == <<folder, all_files, supported, decoded, similarity_threshold>>
locals == <<image_files, processed_count, hashes, i, comparison_count, adj>>
vars == <<folder, all_files, supported, decoded, similarity_threshold, pc,
          image_files, processed_count, hashes, i, comparison_count, adj,
          similar_groups, calls, is_running, progress, results, finished,
          queue, scan_thread, selected_folder, browse_enabled, scan_button_text,
          progress_visible, tree_items, scans, orphans>>
gui == <<scan_thread, selected_folder, browse_enabled, scan_button_text,
         progress_visible, tree_items, scans, orphans>>

-----------------------------------------------------------------------------
(* Pure helpers of find_similar_images.                                    *)

RECURSIVE Distance(_, _)
\* hashes[a] - hashes[b]: the number of differing bits.
Distance(a, b) ==
    IF a = 0 /\ b = 0 THEN 0
    ELSE (IF a % 2 # b % 2 THEN 1 ELSE 0) + Distance(a \div 2, b \div 2)

Similar_exact(distance, threshold) == distance = threshold

Similar_strict(distance, threshold) == distance < threshold

\* distance <= similarity_threshold
Similar(distance, threshold) == distance <= threshold

\* adj[u].append(v) on a defaultdict(list)
AdjAppend(a, u, v) ==
    IF u \in DOMAIN a THEN [a EXCEPT ![u] = Append(@, v)]
    ELSE a @@ (u :> <<v>>)

AddEdge_oneway(a, u, v) == AdjAppend(a, u, v)

\* adj[img_paths[i]].append(img_paths[j]); adj[img_paths[j]].append(img_paths[i])
AddEdge(a, u, v) == AdjAppend(AdjAppend(a, u, v), v, u)

RECURSIVE CompareFrom(_, _, _, _, _)
\* for j in range(j0, num_hashed_images) with the outer index i0 (0-based)
CompareFrom(a, hs, i0, j0, threshold) ==
    IF j0 >= Len(hs) THEN a
    ELSE LET u == hs[i0 + 1]
             v == hs[j0 + 1]
             a2 == IF Similar(Distance(u.hash, v.hash), threshold)
                   THEN AddEdge(a, u.path, v.path) ELSE a
         IN CompareFrom(a2, hs, i0, j0 + 1, threshold)

RECURSIVE BuildAdj(_, _, _, _)
\* for i in range(i0, num_hashed_images): the whole pairwise loop
BuildAdj(a, hs, i0, threshold) ==
    IF i0 >= Len(hs) THEN a
    ELSE BuildAdj(CompareFrom(a, hs, i0, i0 + 1, threshold), hs, i0 + 1, threshold)

RECURSIVE MinOf(_)
\* min(current_group)
MinOf(s) ==
    IF Len(s) = 1 THEN s[1]
    ELSE LET m == MinOf(Tail(s)) IN IF s[1] <= m THEN s[1] ELSE m

Representative_first(current_group) == current_group[1]

\* representative = min(current_group)
Representative(current_group) == MinOf(current_group)

RECURSIVE Insert(_, _)
Insert(x, s) ==
    IF s = <<>> THEN <<x>>
    ELSE IF x <= s[1] THEN <<x>> \o s ELSE <<s[1]>> \o Insert(x, Tail(s))

RECURSIVE Sorted(_)
\* sorted(current_group)
Sorted(s) == IF s = <<>> THEN <<>> ELSE Insert(s[1], Sorted(Tail(s)))

GroupValue_unsorted(current_group) == current_group

\* the value stored for a group
GroupValue(current_group) == Sorted(current_group)

RECURSIVE Enqueue(_, _, _, _)
\* for v in adj[u]: if v not in visited: visited.add(v); q.append(v)
\* st = [q, visited]
Enqueue(ns, k, q, visited) ==
    IF k > Len(ns) THEN [q |-> q, visited |-> visited]
    ELSE IF ns[k] \notin visited
         THEN Enqueue(ns, k + 1, Append(q, ns[k]), visited \cup {ns[k]})
         ELSE Enqueue(ns, k + 1, q, visited)

\* if u in adj: adj[u]
Neighbours(a, u) == IF u \in DOMAIN a THEN a[u] ELSE <<>>

RECURSIVE Bfs(_, _, _, _)
\* while q: u = q.pop(0); current_group.append(u); ...
Bfs(q, current_group, visited, a) ==
    IF q = <<>> THEN [group |-> current_group, visited |-> visited]
    ELSE LET u == Head(q)
             st == Enqueue(Neighbours(a, u), 1, Tail(q), visited)
         IN Bfs(st.q, Append(current_group, u), st.visited, a)

\* if len(current_group) > 1
KeepGroup(current_group) == Len(current_group) > 1

\* if img_path not in visited and img_path in adj
StartsGroup(img_path, visited, a) == img_path \notin visited /\ img_path \in DOMAIN a

\* the traversal working on a copy of visited
Component_copy(img_path, visited, a) ==
    [group |-> Bfs(<<img_path>>, <<>>, visited \cup {img_path}, a).group,
     visited |-> visited \cup {img_path}]

\* current_group = []; q = [img_path]; visited.add(img_path); while q: ...
Component(img_path, visited, a) ==
    Bfs(<<img_path>>, <<>>, visited \cup {img_path}, a)

RECURSIVE Components(_, _, _, _, _)
\* for img_path in img_paths (from 1-based position k): the component loop
Components(hs, k, visited, groups, a) ==
    IF k > Len(hs) THEN groups
    ELSE LET img_path == hs[k].path IN
         IF StartsGroup(img_path, visited, a)
         THEN LET r == Component(img_path, visited, a)
                  g2 == IF KeepGroup(r.group)
                        THEN [x \in (DOMAIN groups) \cup {Representative(r.group)} |->
                                IF x = Representative(r.group)
                                THEN GroupValue(r.group) ELSE groups[x]]
                        ELSE groups
              IN Components(hs, k + 1, r.visited, g2, a)
         ELSE Components(hs, k + 1, visited \cup {img_path}, groups, a)

\* the empty dict
EmptyDict == <<>>

RECURSIVE HashAll(_, _, _)
\* the hashing loop as a whole: the dict hashes after all of image_files
HashAll(files, k, dec) ==
    IF k > Len(files) THEN <<>>
    ELSE (IF dec[files[k]] # <<>>
          THEN <<[path |-> files[k], hash |-> dec[files[k]][1]]>> ELSE <<>>)
         \o HashAll(files, k + 1, dec)

\* the mapping find_similar_images returns for a listable folder
FindSimilar(listing, sup, dec, threshold) ==
    LET files == SelectSeq(listing, LAMBDA f : sup[f])
        hs == HashAll(files, 1, dec)
    IN Components(hs, 1, {}, EmptyDict, BuildAdj(EmptyDict, hs, 0, threshold))

-----------------------------------------------------------------------------
(* The scan: ScanWorker.run calling find_similar_images.                   *)

Event(current, total, message) ==
    [current |-> current, total |-> total, message |-> message]

\* A signal crossing from the worker thread to the GUI thread; n is the number
\* of groups a results signal carries.
Signal(sig, n) == [sig |-> sig, n |-> n]

\* ScanWorker.report_progress: emit only while _is_running
Emit(log, e) == IF is_running THEN Append(log, e) ELSE log

\* progress_callback(current, total, message), with report_progress as the callback
Report(current, total, message) ==
    /\ calls' = Append(calls, Event(current, total, message))
    /\ progress' = Emit(progress, Event(current, total, message))
    /\ queue' = Emit(queue, Signal("progress", 0))

ReturnNone == [none |-> TRUE, map |-> EmptyDict]
ReturnDict(d) == [none |-> FALSE, map |-> d]

\* total_images * 2
HashingTotal(total_images) == total_images * 2

\* num_hashed_images * (num_hashed_images - 1) // 2
TotalComparisons(num_hashed_images) ==
    (num_hashed_images * (num_hashed_images - 1)) \div 2

TotalStepsOverall_hashed == Len(hashes) + TotalComparisons(Len(hashes))

TotalStepsOverall_pairs == TotalComparisons(Len(hashes))

\* total_steps_overall = total_images + total_comparisons_possible
TotalStepsOverall == Len(image_files) + TotalComparisons(Len(hashes))

\* the listing without the folder checks: a bad folder lists as empty
ListFolder_nocheck ==
    /\ pc = "start"
    /\ LET imgs == SelectSeq(all_files, LAMBDA f : supported[f]) IN
       IF imgs = <<>>
       THEN /\ Report(1, 1, "no_files")
            /\ similar_groups' = ReturnDict(EmptyDict)
            /\ pc' = "returned"
            /\ UNCHANGED image_files
       ELSE /\ image_files' = imgs
            /\ Report(0, HashingTotal(Len(imgs)), "start")
            /\ pc' = "hashing"
            /\ UNCHANGED similar_groups
    /\ UNCHANGED <<inputs, processed_count, hashes, i, comparison_count, adj,
                   is_running, results, finished, gui>>

\* Lines 25-55: the folder checks, the listing, the extension filter and the
\* initial progress event.
ListFolder ==
    /\ pc = "start"
    /\ IF folder # "ok"
       THEN /\ Report(0, 1, "error")
            /\ similar_groups' = ReturnNone
            /\ pc' = "returned"
            /\ UNCHANGED image_files
       ELSE LET imgs == SelectSeq(all_files, LAMBDA f : supported[f]) IN
            IF imgs = <<>>
            THEN /\ Report(1, 1, "no_files")
                 /\ similar_groups' = ReturnDict(EmptyDict)
                 /\ pc' = "returned"
                 /\ UNCHANGED image_files
            ELSE /\ image_files' = imgs
                 /\ Report(0, HashingTotal(Len(imgs)), "start")
                 /\ pc' = "hashing"
                 /\ UNCHANGED similar_groups
    /\ UNCHANGED <<inputs, processed_count, hashes, i, comparison_count, adj,
                   is_running, results, finished, gui>>

\* the hashing loop without its try/except: a failing image ends the call
HashImage_abort ==
    /\ pc = "hashing"
    /\ processed_count < Len(image_files)
    /\ LET img_path == image_files[processed_count + 1] IN
       IF decoded[img_path] # <<>>
       THEN /\ hashes' = Append(hashes, [path |-> img_path, hash |-> decoded[img_path][1]])
            /\ processed_count' = processed_count + 1
            /\ Report(processed_count + 1, HashingTotal(Len(image_files)), "hash")
            /\ UNCHANGED <<pc, similar_groups>>
       ELSE /\ pc' = "returned"
            /\ similar_groups' = ReturnNone
            /\ UNCHANGED <<hashes, processed_count, calls, progress, queue>>
    /\ UNCHANGED <<inputs, image_files, i, comparison_count, adj,
                   is_running, results, finished, gui>>

\* the progress event raised inside the try block: none for a failing image
HashImage_onlysuccess ==
    /\ pc = "hashing"
    /\ processed_count < Len(image_files)
    /\ LET img_path == image_files[processed_count + 1] IN
       IF decoded[img_path] # <<>>
       THEN /\ hashes' = Append(hashes, [path |-> img_path, hash |-> decoded[img_path][1]])
            /\ Report(processed_count + 1, HashingTotal(Len(image_files)), "hash")
       ELSE UNCHANGED <<hashes, calls, progress, queue>>
    /\ processed_count' = processed_count + 1
    /\ UNCHANGED <<inputs, pc, image_files, i, comparison_count, adj,
                   similar_groups, is_running, results, finished, gui>>

\* each new hash compared with the earlier ones at once, with its own event
HashImage_incremental ==
    /\ pc = "hashing"
    /\ processed_count < Len(image_files)
    /\ LET img_path == image_files[processed_count + 1] IN
       hashes' = IF decoded[img_path] # <<>>
                 THEN Append(hashes, [path |-> img_path, hash |-> decoded[img_path][1]])
                 ELSE hashes
    /\ processed_count' = processed_count + 1
    /\ LET h == Event(processed_count + 1, HashingTotal(Len(image_files)), "hash")
           c == Event(processed_count + 1, HashingTotal(Len(image_files)), "compare")
       IN /\ calls' = Append(Append(calls, h), c)
          /\ progress' = Emit(Emit(progress, h), c)
          /\ queue' = Emit(Emit(queue, Signal("progress", 0)), Signal("progress", 0))
    /\ UNCHANGED <<inputs, pc, image_files, i, comparison_count, adj,
                   similar_groups, is_running, results, finished, gui>>

\* Lines 58-72: one iteration of the hashing loop.
HashImage ==
    /\ pc = "hashing"
    /\ processed_count < Len(image_files)
    /\ LET img_path == image_files[processed_count + 1] IN
       hashes' = IF decoded[img_path] # <<>>
                 THEN Append(hashes, [path |-> img_path, hash |-> decoded[img_path][1]])
                 ELSE hashes
    /\ processed_count' = processed_count + 1
    /\ Report(processed_count + 1, HashingTotal(Len(image_files)), "hash")
    /\ UNCHANGED <<inputs, pc, image_files, i, comparison_count, adj,
                   similar_groups, is_running, results, finished, gui>>

\* None returned when no image could be hashed
AfterHashing_none ==
    /\ pc = "hashing"
    /\ processed_count = Len(image_files)
    /\ IF hashes = <<>>
       THEN /\ Report(HashingTotal(Len(image_files)), HashingTotal(Len(image_files)),
                      "none_hashed")
            /\ similar_groups' = ReturnNone
            /\ pc' = "returned"
       ELSE /\ pc' = "comparing"
            /\ UNCHANGED <<calls, progress, queue, similar_groups>>
    /\ UNCHANGED <<inputs, image_files, processed_count, hashes, i,
                   comparison_count, adj, is_running, results, finished, gui>>

AfterHashing_half ==
    /\ pc = "hashing"
    /\ processed_count = Len(image_files)
    /\ IF hashes = <<>>
       THEN /\ Report(Len(image_files), HashingTotal(Len(image_files)), "none_hashed")
            /\ similar_groups' = ReturnDict(EmptyDict)
            /\ pc' = "returned"
       ELSE /\ pc' = "comparing"
            /\ UNCHANGED <<calls, progress, queue, similar_groups>>
    /\ UNCHANGED <<inputs, image_files, processed_count, hashes, i,
                   comparison_count, adj, is_running, results, finished, gui>>

\* Lines 74-88: after the hashing loop.
AfterHashing ==
    /\ pc = "hashing"
    /\ processed_count = Len(image_files)
    /\ IF hashes = <<>>
       THEN /\ Report(HashingTotal(Len(image_files)), HashingTotal(Len(image_files)),
                      "none_hashed")
            /\ similar_groups' = ReturnDict(EmptyDict)
            /\ pc' = "returned"
       ELSE /\ pc' = "comparing"
            /\ UNCHANGED <<calls, progress, queue, similar_groups>>
    /\ UNCHANGED <<inputs, image_files, processed_count, hashes, i,
                   comparison_count, adj, is_running, results, finished, gui>>

\* the inner loop over every j, not only j > i
CompareRow_full ==
    /\ pc = "comparing"
    /\ i < Len(hashes)
    /\ Report(Len(image_files) + comparison_count, TotalStepsOverall, "compare")
    /\ adj' = CompareFrom(adj, hashes, i, 0, similarity_threshold)
    /\ comparison_count' = comparison_count + (Len(hashes) - (i + 1))
    /\ i' = i + 1
    /\ UNCHANGED <<inputs, pc, image_files, processed_count, hashes,
                   similar_groups, is_running, results, finished, gui>>

\* Lines 91-104: one iteration of the outer pairwise loop.
CompareRow ==
    /\ pc = "comparing"
    /\ i < Len(hashes)
    /\ Report(Len(image_files) + comparison_count, TotalStepsOverall, "compare")
    /\ adj' = CompareFrom(adj, hashes, i, i + 1, similarity_threshold)
    /\ comparison_count' = comparison_count + (Len(hashes) - (i + 1))
    /\ i' = i + 1
    /\ UNCHANGED <<inputs, pc, image_files, processed_count, hashes,
                   similar_groups, is_running, results, finished, gui>>

\* Lines 106-142: the connected components, the final event and the return.
ExtractGroups ==
    /\ pc = "comparing"
    /\ i = Len(hashes)
    /\ Report(TotalStepsOverall, TotalStepsOverall, "done")
    /\ similar_groups' = ReturnDict(Components(hashes, 1, {}, EmptyDict, adj))
    /\ pc' = "returned"
    /\ UNCHANGED <<inputs, locals, is_running, results, finished, gui>>

\* run() without the test for None
CheckRunning_anyvalue ==
    /\ pc = "returned"
    /\ pc' = IF is_running THEN "emit_results" ELSE "finally"
    /\ UNCHANGED <<inputs, locals, similar_groups, calls, is_running, progress,
                   results, finished, queue, gui>>

\* main.py line 37-38: run() reads _is_running, then looks at the value returned.
CheckRunning ==
    /\ pc = "returned"
    /\ pc' = IF is_running /\ ~similar_groups.none THEN "emit_results" ELSE "finally"
    /\ UNCHANGED <<inputs, locals, similar_groups, calls, is_running, progress,
                   results, finished, queue, gui>>

\* main.py line 39: self.results.emit(similar_groups)
EmitResults ==
    /\ pc = "emit_results"
    /\ results' = Append(results, similar_groups.map)
    /\ queue' = Append(queue, Signal("results", Cardinality(DOMAIN similar_groups.map)))
    /\ pc' = "finally"
    /\ UNCHANGED <<inputs, locals, similar_groups, calls, is_running, progress,
                   finished, gui>>

\* main.py line 50: the finally block reads _is_running.
Finally ==
    /\ pc = "finally"
    /\ pc' = IF is_running THEN "emit_finished" ELSE "finishing"
    /\ UNCHANGED <<inputs, locals, similar_groups, calls, is_running, progress,
                   results, finished, queue, gui>>

\* main.py line 51: self.finished.emit()
EmitFinished ==
    /\ pc = "emit_finished"
    /\ finished' = finished + 1
    /\ queue' = Append(queue, Signal("finished", 0))
    /\ pc' = "finishing"
    /\ UNCHANGED <<inputs, locals, similar_groups, calls, is_running, progress,
                   results, gui>>

\* main.py line 52: the print that closes the finally block; run() returns and
\* isRunning() becomes False.
RunEnds ==
    /\ pc = "finishing"
    /\ pc' = "ended"
    /\ UNCHANGED <<inputs, locals, similar_groups, calls, is_running, progress,
                   results, finished, queue, gui>>

\* ScanWorker.stop(), called from the GUI thread while the worker thread runs.
Stop ==
    /\ pc # "ended"
    /\ is_running
    /\ is_running' = FALSE
    /\ UNCHANGED <<inputs, pc, locals, similar_groups, calls, progress, results,
                   finished, queue, gui>>

-----------------------------------------------------------------------------
(* Initial states.                                                         *)

\* The state of a ScanWorker and of the locals of find_similar_images when
\* run() begins.
InitScan ==
    /\ pc = "start"
    /\ image_files = <<>>
    /\ processed_count = 0
    /\ hashes = <<>>
    /\ i = 0
    /\ comparison_count = 0
    /\ adj = EmptyDict
    /\ similar_groups = ReturnNone
    /\ calls = <<>>
    /\ is_running = TRUE
    /\ progress = <<>>
    /\ results = <<>>
    /\ finished = 0
    /\ queue = <<>>

\* The window as start_scan leaves it (main.py lines 246-259).
GuiScanning ==
    /\ scan_thread = "worker"
    /\ selected_folder = TRUE
    /\ browse_enabled = FALSE
    /\ scan_button_text = "stop"
    /\ progress_visible = TRUE
    /\ tree_items = 0
    /\ scans = 1
    /\ orphans = 0

\* A folder with at most n entries, enumerated in any order; or no folder.
InitInputs(n) ==
    /\ similarity_threshold \in Thresholds
    /\ \/ /\ folder = "ok"
          /\ \E k \in 0 .. n :
                /\ all_files \in Permutations(1 .. k)
                /\ supported \in [1 .. k -> BOOLEAN]
                /\ decoded \in [1 .. k -> Decodes]
                /\ \A f \in 1 .. k : ~supported[f] => decoded[f] = <<>>
       \/ /\ folder \in {"missing", "unlistable"}
          /\ all_files = <<>>
          /\ supported = <<>>
          /\ decoded = <<>>

Init == InitInputs(MaxFiles) /\ InitScan /\ GuiScanning

\* find_similar_images alone, never stopped.
Next ==
    \/ ListFolder
    \/ HashImage
    \/ AfterHashing
    \/ CompareRow
    \/ ExtractGroups

Spec == Init /\ [][Next]_vars

InitWorker == InitInputs(WorkerFiles) /\ InitScan /\ GuiScanning

\* A folder of HashedFiles images, every one of which is hashed.
InitHashed ==
    /\ similarity_threshold \in Thresholds
    /\ folder = "ok"
    /\ all_files \in Permutations(1 .. HashedFiles)
    /\ supported = [f \in 1 .. HashedFiles |-> TRUE]
    /\ decoded \in [1 .. HashedFiles -> {<<h>> : h \in 0 .. HashedMaxHash}]
    /\ InitScan
    /\ GuiScanning

SpecHashed == InitHashed /\ [][Next]_vars

\* ScanWorker.run on the worker thread, stop() on the GUI thread.
NextWorker ==
    \/ ListFolder
    \/ HashImage
    \/ AfterHashing
    \/ CompareRow
    \/ ExtractGroups
    \/ CheckRunning
    \/ EmitResults
    \/ Finally
    \/ EmitFinished
    \/ RunEnds
    \/ Stop

SpecWorker == InitWorker /\ [][NextWorker]_vars

-----------------------------------------------------------------------------
(* The window: DuplicateImageFinderApp on the GUI thread, its ScanWorker   *)
(* on the worker thread, the worker's signals queued between the two.      *)

\* QThread.isRunning() of the latest ScanWorker: from start() until run() returns
IsRunning == pc \notin {"idle", "ended"}

ScanInProgress_reference == scan_thread # "None"

\* main.py line 232: self.scan_thread and self.scan_thread.isRunning()
ScanInProgress == scan_thread # "None" /\ IsRunning

\* main.py lines 216-225: browse_folder, a folder chosen in the dialog.
BrowseFolder ==
    /\ browse_enabled
    /\ selected_folder' = TRUE
    /\ tree_items' = 0
    /\ progress_visible' = FALSE
    /\ UNCHANGED <<inputs, pc, locals, similar_groups, calls, is_running, progress,
                   results, finished, queue, scan_thread, browse_enabled,
                   scan_button_text, scans, orphans>>

\* main.py lines 232-244: start_scan while a scan is in progress, answered Yes.
\* (Answered No, start_scan changes nothing.)
StopScan ==
    /\ selected_folder
    /\ ScanInProgress
    /\ is_running' = FALSE
    /\ scan_button_text' = "start"
    /\ progress_visible' = FALSE
    /\ UNCHANGED <<inputs, pc, locals, similar_groups, calls, progress, results,
                   finished, queue, scan_thread, selected_folder, browse_enabled,
                   tree_items, scans, orphans>>

\* main.py lines 246-259: start_scan creating and starting a new ScanWorker.
\* Signals an earlier worker emitted stay queued.
StartScan ==
    /\ selected_folder
    /\ ~ScanInProgress
    /\ scans < MaxScans
    /\ tree_items' = 0
    /\ progress_visible' = TRUE
    /\ scan_button_text' = "stop"
    /\ browse_enabled' = FALSE
    /\ scan_thread' = "worker"
    /\ scans' = scans + 1
    /\ orphans' = IF IsRunning THEN orphans + 1 ELSE orphans
    /\ pc' = "start"
    /\ image_files' = <<>>
    /\ processed_count' = 0
    /\ hashes' = <<>>
    /\ i' = 0
    /\ comparison_count' = 0
    /\ adj' = EmptyDict
    /\ similar_groups' = ReturnNone
    /\ calls' = <<>>
    /\ is_running' = TRUE
    /\ progress' = <<>>
    /\ results' = <<>>
    /\ finished' = 0
    /\ UNCHANGED <<inputs, queue, selected_folder>>

\* scan_finished without clearing the thread reference
Deliver_keepreference ==
    /\ queue # <<>>
    /\ queue' = Tail(queue)
    /\ CASE Head(queue).sig = "progress" ->
              UNCHANGED gui
         [] Head(queue).sig = "results" ->
              /\ tree_items' = Head(queue).n
              /\ UNCHANGED <<scan_thread, selected_folder, browse_enabled,
                             scan_button_text, progress_visible, scans, orphans>>
         [] Head(queue).sig = "finished" ->
              /\ scan_button_text' = "start"
              /\ browse_enabled' = TRUE
              /\ progress_visible' = FALSE
              /\ UNCHANGED <<scan_thread, selected_folder, tree_items, scans, orphans>>
    /\ UNCHANGED <<inputs, pc, locals, similar_groups, calls, is_running, progress,
                   results, finished>>

\* The GUI event loop handles the oldest queued signal: update_progress
\* (lines 261-265), display_results (267-307) or scan_finished (314-324).
Deliver ==
    /\ queue # <<>>
    /\ queue' = Tail(queue)
    /\ CASE Head(queue).sig = "progress" ->
              UNCHANGED gui
         [] Head(queue).sig = "results" ->
              /\ tree_items' = Head(queue).n
              /\ UNCHANGED <<scan_thread, selected_folder, browse_enabled,
                             scan_button_text, progress_visible, scans, orphans>>
         [] Head(queue).sig = "finished" ->
              /\ scan_button_text' = "start"
              /\ browse_enabled' = TRUE
              /\ progress_visible' = FALSE
              /\ scan_thread' = "None"
              /\ UNCHANGED <<selected_folder, tree_items, scans, orphans>>
    /\ UNCHANGED <<inputs, pc, locals, similar_groups, calls, is_running, progress,
                   results, finished>>

\* main.py line 52 in a worker that start_scan has already replaced: its run()
\* returns.
OrphanEnds ==
    /\ orphans > 0
    /\ orphans' = orphans - 1
    /\ UNCHANGED <<inputs, pc, locals, similar_groups, calls, is_running, progress,
                   results, finished, queue, scan_thread, selected_folder,
                   browse_enabled, scan_button_text, progress_visible, tree_items,
                   scans>>

\* The window after __init__ (lines 159-215): no folder, no worker.
InitGui ==
    /\ scan_thread = "None"
    /\ selected_folder = FALSE
    /\ browse_enabled = TRUE
    /\ scan_button_text = "start"
    /\ progress_visible = FALSE
    /\ tree_items = 0
    /\ scans = 0
    /\ orphans = 0

\* The folder the user selects: at most n entries listed in ascending order,
\* each unsupported, undecodable or hashed to 0; or no usable folder.
\* start_scan gives the worker no threshold, so the default applies.
InitWindow(n) ==
    /\ similarity_threshold = DefaultThreshold
    /\ \/ /\ folder = "ok"
          /\ \E k \in 0 .. n :
                /\ all_files = [f \in 1 .. k |-> f]
                /\ supported \in [1 .. k -> BOOLEAN]
                /\ decoded \in [1 .. k -> {<<>>, <<0>>}]
                /\ \A f \in 1 .. k : ~supported[f] => decoded[f] = <<>>
       \/ /\ folder \in {"missing", "unlistable"}
          /\ all_files = <<>>
          /\ supported = <<>>
          /\ decoded = <<>>
    /\ pc = "idle"
    /\ image_files = <<>>
    /\ processed_count = 0
    /\ hashes = <<>>
    /\ i = 0
    /\ comparison_count = 0
    /\ adj = EmptyDict
    /\ similar_groups = ReturnNone
    /\ calls = <<>>
    /\ is_running = FALSE
    /\ progress = <<>>
    /\ results = <<>>
    /\ finished = 0
    /\ queue = <<>>
    /\ InitGui

InitApp == InitWindow(AppFiles)

InitAppFair == InitWindow(FairFiles)

\* A step of ScanWorker.run on the worker thread.
WorkerStep ==
    \/ ListFolder
    \/ HashImage
    \/ AfterHashing
    \/ CompareRow
    \/ ExtractGroups
    \/ CheckRunning
    \/ EmitResults
    \/ Finally
    \/ EmitFinished
    \/ RunEnds

NextApp ==
    \/ BrowseFolder
    \/ StartScan
    \/ StopScan
    \/ Deliver
    \/ OrphanEnds
    \/ ListFolder
    \/ HashImage
    \/ AfterHashing
    \/ CompareRow
    \/ ExtractGroups
    \/ CheckRunning
    \/ EmitResults
    \/ Finally
    \/ EmitFinished
    \/ RunEnds

SpecApp == InitApp /\ [][NextApp]_vars

\* The worker thread is scheduled until run() returns, and the GUI event loop
\* handles every queued signal; the user's clicks are not forced.
SpecAppFair ==
    /\ InitAppFair
    /\ [][NextApp]_vars
    /\ WF_vars(WorkerStep)
    /\ WF_vars(Deliver)
    /\ WF_vars(OrphanEnds)

-----------------------------------------------------------------------------
(* Properties of the mapping find_similar_images returns.                  *)

RangeOf(s) == {s[k] : k \in DOMAIN s}

\* find_similar_images has returned a dict, here called Groups
ReturnedDict == pc = "returned" /\ ~similar_groups.none
Groups == similar_groups.map
Members(r) == RangeOf(Groups[r])

\* The similarity graph as the inputs define it: its nodes are the files
\* that are candidates and hash, its edges the pairs within the threshold.
HashedPaths == {f \in RangeOf(all_files) : supported[f] /\ decoded[f] # <<>>}
Edge(u, v, threshold) ==
    u # v /\ Distance(decoded[u][1], decoded[v][1]) <= threshold

RECURSIVE Reachable(_, _)
Reachable(S, threshold) ==
    LET S2 == S \cup {v \in HashedPaths : \E u \in S : Edge(u, v, threshold)}
    IN IF S2 = S THEN S ELSE Reachable(S2, threshold)

ComponentOf(u, threshold) == Reachable({u}, threshold)

\* C1: every returned group has at least 2 members, and no path is in the
\* value lists of two different keys.
C1_PartitionFragment ==
    ReturnedDict =>
        /\ \A r \in DOMAIN Groups : Len(Groups[r]) >= 2
        /\ \A r1, r2 \in DOMAIN Groups : r1 # r2 => Members(r1) \cap Members(r2) = {}

\* Two groups are returned at once.
C1_Witness == ReturnedDict /\ Cardinality(DOMAIN Groups) >= 2

\* C2: the returned groups are exactly the connected components with 2 or
\* more nodes of the similarity graph over the hashed paths.
C2_ConnectedComponents ==
    ReturnedDict =>
        {Members(r) : r \in DOMAIN Groups} =
            {ComponentOf(u, similarity_threshold) : u \in
                {x \in HashedPaths :
                    Cardinality(ComponentOf(x, similarity_threshold)) >= 2}}

\* A returned group holds two paths that are farther apart than the
\* threshold: they are joined only through a third path.
C2_Witness ==
    /\ ReturnedDict
    /\ \E r \in DOMAIN Groups : \E u, v \in Members(r) :
          u # v /\ ~Edge(u, v, similarity_threshold)

\* C3: each key is the smallest member of its value list, and each value
\* list is strictly ascending.
C3_KeyIsMinAndSorted ==
    ReturnedDict =>
        \A r \in DOMAIN Groups :
            /\ r \in Members(r)
            /\ \A x \in Members(r) : r <= x
            /\ \A k \in 1 .. Len(Groups[r]) - 1 : Groups[r][k] < Groups[r][k + 1]

\* A group is returned whose members were enumerated in descending order.
C3_Witness ==
    /\ ReturnedDict
    /\ \E r \in DOMAIN Groups :
          /\ Len(Groups[r]) >= 3
          /\ \A k \in 1 .. Len(hashes) - 1 : hashes[k].path > hashes[k + 1].path

\* the folder's entries enumerated in ascending order
AscendingListing == [k \in 1 .. Len(all_files) |-> k]

\* C4: the mapping returned does not depend on the order in which
\* os.listdir enumerates the files: it is the mapping returned for the
\* ascending enumeration of the same files (every enumeration order is an
\* initial state, so all orders give one mapping).
C4_OrderIndependent ==
    ReturnedDict /\ folder = "ok" =>
        Groups = FindSimilar(AscendingListing, supported, decoded, similarity_threshold)

\* A non-empty mapping is returned for an enumeration that is not ascending.
C4_Witness ==
    /\ ReturnedDict
    /\ all_files # AscendingListing
    /\ DOMAIN Groups # {}
    /\ \E f \in RangeOf(all_files) : supported[f] /\ decoded[f] = <<>>

\* the mapping returned for the same files at another threshold
GroupsAt(threshold) == FindSimilar(all_files, supported, decoded, threshold)

\* C5: every group returned at the threshold is a subset of exactly one
\* group returned at any higher threshold.
C5_ThresholdMonotone ==
    ReturnedDict =>
        \A t2 \in Thresholds : t2 > similarity_threshold =>
            LET g2 == GroupsAt(t2) IN
            \A r \in DOMAIN Groups :
                Cardinality({r2 \in DOMAIN g2 : Members(r) \subseteq RangeOf(g2[r2])}) = 1

\* Two groups returned at the threshold are merged at a higher one.
C5_Witness ==
    /\ ReturnedDict
    /\ \E t2 \in Thresholds : t2 > similarity_threshold /\
          LET g2 == GroupsAt(t2) IN
          \E r1, r2 \in DOMAIN Groups : r1 # r2 /\
              \E r \in DOMAIN g2 : Members(r1) \cup Members(r2) \subseteq RangeOf(g2[r])

-----------------------------------------------------------------------------
(* Properties of the progress events and of cancellation.                  *)

Last(s) == s[Len(s)]

\* C6: the values of current passed to progress_callback never decrease.
C6_CurrentNonDecreasing ==
    \A k \in 1 .. Len(calls) - 1 : calls[k].current <= calls[k + 1].current

\* A scan with a failed image and a compared pair has made its last call.
C6_Witness ==
    /\ pc = "returned"
    /\ Len(hashes) >= 2
    /\ Len(hashes) < Len(image_files)
    /\ Last(calls).message = "done"

\* run() is past the call of find_similar_images
AfterScan ==
    pc \in {"returned", "emit_results", "finally", "emit_finished", "finishing", "ended"}

CallsAfterStop == SubSeq(calls, Len(progress) + 1, Len(calls))

\* the images whose hashing ended after the stop
HashedAfterStop ==
    Cardinality({k \in DOMAIN CallsAfterStop : CallsAfterStop[k].message = "hash"})

\* the pairs compared in the rows that began after the stop
ComparedAfterStop ==
    LET rows == {k \in DOMAIN CallsAfterStop : CallsAfterStop[k].message = "compare"}
        first == CHOOSE k \in rows : \A k2 \in rows : k <= k2
    IN IF rows = {} THEN 0
       ELSE comparison_count - (CallsAfterStop[first].current - Len(image_files))

\* C8: once stop() has cleared the flag, the scan does no work beyond the
\* one image or pair that was in flight.
C8_NoNewWorkAfterStop == HashedAfterStop + ComparedAfterStop <= 1

\* C9: the results signal is never emitted after stop() has cleared the flag.
C9_NoResultsAfterStop == [][~is_running => results' = results]_vars

\* C10: when run() ends after a stop, the finished signal has been emitted.
C10_FinishedAfterStop == pc = "ended" /\ ~is_running => finished > 0

-----------------------------------------------------------------------------
(* Failures, degenerate folders and the events of the two phases.          *)

\* the candidates whose decode or hash raises
FailedPaths == {f \in RangeOf(all_files) : supported[f] /\ decoded[f] = <<>>}

\* every path that occurs in adj, as a key or as a neighbour
AdjPaths == DOMAIN adj \cup UNION {RangeOf(adj[u]) : u \in DOMAIN adj}

\* the events of calls with the given message
EventsOf(message) == {k \in DOMAIN calls : calls[k].message = message}

\* C13: for a folder that does not exist or cannot be listed the call
\* returns None, which is not the empty mapping, no image is hashed, no pair
\* is compared and run() never emits the results signal.
C13_InvalidFolderFails ==
    folder # "ok" =>
        /\ hashes = <<>> /\ processed_count = 0 /\ comparison_count = 0
        /\ results = <<>>
        /\ AfterScan => similar_groups.none /\ similar_groups # ReturnDict(EmptyDict)

\* run() has ended for a folder that does not exist, and was never stopped.
C13_Witness == folder = "missing" /\ pc = "ended" /\ is_running /\ finished > 0

\* C14: a candidate that fails to decode does not end the batch: every
\* candidate is attempted, a mapping is returned, and no failed path is in
\* hashes, in adj or in a returned group.
C14_FailureAbsorbed ==
    pc = "returned" /\ folder = "ok" =>
        /\ ~similar_groups.none
        /\ Cardinality(EventsOf("hash")) = Len(image_files)
        /\ \A f \in FailedPaths :
              /\ \A k \in DOMAIN hashes : hashes[k].path # f
              /\ f \notin AdjPaths
              /\ \A r \in DOMAIN Groups : f \notin Members(r)

\* The first candidate fails and the two after it form a group.
C14_Witness ==
    /\ pc = "returned"
    /\ Len(image_files) = 3
    /\ image_files[1] \in FailedPaths
    /\ DOMAIN Groups # {}

\* C15: with a listable folder, no candidate, no hashed image and no pair
\* within the threshold each make the call return the empty mapping.
C15_DegenerateIsEmpty ==
    pc = "returned" /\ folder = "ok"
        /\ (image_files = <<>> \/ hashes = <<>> \/ DOMAIN adj = {}) =>
        similar_groups = ReturnDict(EmptyDict)

\* Two images were hashed and compared, and they are not within the threshold.
C15_Witness ==
    /\ pc = "returned"
    /\ Len(hashes) >= 2
    /\ comparison_count >= 1
    /\ DOMAIN adj = {}

\* the pairwise loop has run to its end
ComparedAll ==
    \/ pc = "comparing" /\ i = Len(hashes)
    \/ pc = "returned" /\ hashes # <<>>

\* C16: after the pairwise loop, two distinct hashed images are neighbours
\* of each other exactly when their distance is at most the threshold.
C16_EdgeIffWithinThreshold ==
    ComparedAll =>
        \A u, v \in HashedPaths : u # v =>
            ((u \in DOMAIN adj /\ v \in RangeOf(adj[u]))
                <=> Distance(decoded[u][1], decoded[v][1]) <= similarity_threshold)

\* One pair at distance exactly the threshold is connected, another pair at
\* distance threshold + 1 is not.
C16_Witness ==
    /\ ComparedAll
    /\ \E u, v \in HashedPaths :
          /\ Distance(decoded[u][1], decoded[v][1]) = similarity_threshold
          /\ u \in DOMAIN adj /\ v \in RangeOf(adj[u])
    /\ \E u, v \in HashedPaths :
          /\ Distance(decoded[u][1], decoded[v][1]) = similarity_threshold + 1
          /\ (u \notin DOMAIN adj \/ v \notin RangeOf(adj[u]))

\* C17: with N candidates, the events after the initial one are one per
\* attempt, with current = 1, 2, ..., N in that order and total = 2 * N.
C17_OneEventPerAttempt ==
    image_files # <<>> =>
        /\ Cardinality(EventsOf("hash")) = processed_count
        /\ Len(calls) >= 1 + processed_count
        /\ \A k \in 1 .. processed_count :
              calls[k + 1] = Event(k, 2 * Len(image_files), "hash")
        /\ pc # "hashing" => processed_count = Len(image_files)

\* All of three candidates were attempted, and one in the middle failed.
C17_Witness ==
    /\ Len(image_files) = 3
    /\ processed_count = 3
    /\ image_files[2] \in FailedPaths
    /\ Len(hashes) = 2

\* C18: no event of the hashing phase follows an event of the comparison
\* phase.
C18_PhaseOrder ==
    \A k, l \in DOMAIN calls :
        k < l => ~(calls[k].message = "compare" /\ calls[l].message = "hash")

\* Both phases have emitted events.
C18_Witness ==
    /\ Cardinality(EventsOf("hash")) >= 2
    /\ Cardinality(EventsOf("compare")) >= 2

\* C19: from one event to the next the completed fraction current / total
\* never decreases.
C19_FractionNonDecreasing ==
    \A k \in 1 .. Len(calls) - 1 :
        calls[k].current * calls[k + 1].total <= calls[k + 1].current * calls[k].total

-----------------------------------------------------------------------------
(* The window and its worker.                                              *)

WorkersInRun == orphans + (IF IsRunning THEN 1 ELSE 0)

\* C11: at most one ScanWorker is inside run() at any time: start_scan never
\* starts a new worker while an earlier one has not finished its run().
C11_AtMostOneRunning == WorkersInRun <= 1

\* The scan was stopped after a progress event of the comparison phase and
\* before the final event.
CancelledInComparison ==
    /\ ~is_running
    /\ progress # <<>>
    /\ Last(progress).message = "compare"

\* C12: a scan cancelled during the comparison phase emits no results, and the
\* window comes to a state where start_scan starts a new ScanWorker.
C12_CancelledThenRestartable ==
    /\ [](CancelledInComparison => results = <<>>)
    /\ (CancelledInComparison /\ scans < MaxScans) ~> ENABLED StartScan

C12_Witness ==
    /\ CancelledInComparison
    /\ pc = "ended"
    /\ scan_thread = "worker"
    /\ scan_button_text = "start"
    /\ scans < MaxScans

ScanningShown == scan_button_text = "stop" /\ ~browse_enabled

\* C20 as stated: with an invalid folder no ScanWorker is ever in run() and the
\* window never shows its scanning state.
C20_NeverRunning == folder # "ok" => ~IsRunning /\ ~ScanningShown

\* C20: with an invalid folder the worker is started and fails in its first
\* step: it never hashes or compares, emits no results, and nothing is shown
\* in the results tree.
C20_InvalidFolderOnlyStarts == folder # "ok" =>
    /\ pc \notin {"hashing", "comparing", "emit_results"}
    /\ hashes = <<>>
    /\ results = <<>>
    /\ \A k \in DOMAIN queue : queue[k].sig # "results"
    /\ tree_items = 0

C20_Witness ==
    /\ folder # "ok"
    /\ pc = "finishing"
    /\ finished = 1
    /\ ScanningShown
    /\ similar_groups = ReturnNone

-----------------------------------------------------------------------------
(* The range of the progress events, the idle window, the adjacency lists. *)

\* update_progress: int((current_step / total_steps) * 100), for total_steps > 0
Percentage(e) == (e.current * 100) \div e.total

\* C21: every progress event has 0 <= current <= total and total >= 1, so
\* the percentage update_progress computes lies between 0 and 100.
C21_EventInRange ==
    \A k \in DOMAIN calls :
        /\ 0 <= calls[k].current
        /\ calls[k].current <= calls[k].total
        /\ calls[k].total >= 1
        /\ Percentage(calls[k]) \in 0 .. 100

C21_Witness ==
    /\ pc = "returned"
    /\ FailedPaths # {}
    /\ Len(hashes) = 1
    /\ \E k \in DOMAIN calls : calls[k].message = "compare"
    /\ \E k \in DOMAIN calls : Percentage(calls[k]) \notin {0, 100}

\* Nothing is left to happen unless the user clicks: run() has returned,
\* every signal has been handled.
Quiescent == pc = "ended" /\ queue = <<>> /\ orphans = 0

\* C22: once a scan attempt has ended and its signals have been handled, the
\* window is idle: browse is enabled again and scan_thread is cleared.
C22_IdleWhenQuiescent == Quiescent => browse_enabled /\ scan_thread = "None"

\* C23: after the pairwise loop adj is symmetric and irreflexive, no list
\* holds a neighbour twice, and every key and neighbour is a hashed path.
C23_AdjSymmetricIrreflexive == ComparedAll =>
    /\ \A u \in DOMAIN adj : \A v \in RangeOf(adj[u]) :
          v \in DOMAIN adj /\ u \in RangeOf(adj[v])
    /\ \A u \in DOMAIN adj : u \notin RangeOf(adj[u])
    /\ \A u \in DOMAIN adj : \A k, l \in DOMAIN adj[u] :
          k # l => adj[u][k] # adj[u][l]
    /\ AdjPaths \subseteq HashedPaths

C23_Witness ==
    /\ ComparedAll
    /\ \E u \in DOMAIN adj : Len(adj[u]) = 2
    /\ \E v \in DOMAIN adj : Len(adj[v]) = 1

====
